---- MODULE Spec2Model ----
(***************************************************************************)
(* A model of prody.sequence.msa.MSA (src/lib/prody/sequence/msa.py): the  *)
(* character grid, the label list, the label-to-row mapping, and the       *)
(* polymorphic indexing of __getitem__, with __iter__, __contains__,       *)
(* __eq__ and setTitle.                                                    *)
(*                                                                         *)
(* Python values are tagged records (field t names the Python type).       *)
(* Strings are sequences of one-character strings, so that parsing a label *)
(* and joining array characters are computed rather than assumed.  Row and *)
(* column positions are Python's, counted from 0.                          *)
(***************************************************************************)
EXTENDS Integers, Sequences, FiniteSets, TLC

VARIABLES
    msa,    \* the MSA instance the caller holds (PyNone before construction)
    op,     \* the call just made: its name, receiver, argument and outcome
    derived, \* whether the held instance was returned by an indexing
    gen     \* the generator the caller holds (PyNone when it holds none)

vars == <<msa, op, derived, gen>>

(***************************************************************************)
(* Bounds of the model.                                                    *)
(***************************************************************************)
MaxRows == 2
MaxCols == 2
MaxListLen == 2

(***************************************************************************)
(* Python values.                                                          *)
(***************************************************************************)
PyNone == [t |-> "None"]
PyInt(n) == [t |-> "int", n |-> n]
PyStr(s) == [t |-> "str", s |-> s]
PyList(s) == [t |-> "list", v |-> s]
PyTuple(s) == [t |-> "tuple", v |-> s]
PySlice(a, b) == [t |-> "slice", start |-> a, stop |-> b]
PyDict(f) == [t |-> "dict", v |-> f]
BoolMask(s) == [t |-> "mask", v |-> s]

Raise(e) == [kind |-> "raise", exc |-> e]

Min(a, b) == IF a < b THEN a ELSE b
Max(a, b) == IF a > b THEN a ELSE b

\* The elements of sequence s at the 0-based positions listed in idx.
Take(s, idx) == [k \in 1..Len(idx) |-> s[idx[k] + 1]]

\* Python's list[i] for an integer i: negative positions count from the end.
InRange(i, n) == -n <= i /\ i < n
Norm(i, n) == IF i < 0 THEN i + n ELSE i

\* slice.indices(n) for a slice of step 1: the positions it selects, in order.
SliceStart(s, n) ==
    IF s.start.t = "None" THEN 0
    ELSE IF s.start.n < 0 THEN Max(0, s.start.n + n) ELSE Min(s.start.n, n)
SliceStop(s, n) ==
    IF s.stop.t = "None" THEN n
    ELSE IF s.stop.n < 0 THEN Max(0, s.stop.n + n) ELSE Min(s.stop.n, n)
SliceIndices(s, n) ==
    LET lo == SliceStart(s, n)
        hi == SliceStop(s, n)
    IN  [k \in 1..Max(0, hi - lo) |-> lo + k - 1]

(***************************************************************************)
(* numpy: character arrays of 0, 1 or 2 dimensions and their indexing.     *)
(***************************************************************************)
Array0(c) ==
    [t |-> "ndarray", dtype |-> "S1", ndim |-> 0, shape |-> <<>>, item |-> c]
Array1(row) ==
    [t |-> "ndarray", dtype |-> "S1", ndim |-> 1, shape |-> <<Len(row)>>, chars |-> row]
Array2(rows, ncols) ==
    [t |-> "ndarray", dtype |-> "S1", ndim |-> 2, shape |-> <<Len(rows), ncols>>,
     data |-> rows]

\* bytes.isalpha, which numpy.char.isalpha applies to each element of an S1
\* array: true of the ASCII letters of either case and of nothing else.
Letters ==
    {"A", "B", "C", "D", "E", "F", "G", "H", "I", "J", "K", "L", "M",
     "N", "O", "P", "Q", "R", "S", "T", "U", "V", "W", "X", "Y", "Z",
     "a", "b", "c", "d", "e", "f", "g", "h", "i", "j", "k", "l", "m",
     "n", "o", "p", "q", "r", "s", "t", "u", "v", "w", "x", "y", "z"}
isalpha(c) == c \in Letters

\* The 0-based positions at which a boolean mask is true, in order.
RECURSIVE Nonzero(_, _)
Nonzero(mask, k) ==
    IF k > Len(mask) THEN <<>>
    ELSE (IF mask[k] THEN <<k - 1>> ELSE <<>>) \o Nonzero(mask, k + 1)

IndexError == [ok |-> FALSE, exc |-> "IndexError"]

\* One index of a numpy subscript against an axis of length n: an integer
\* (scalar), a slice (basic), or a list of integers or a boolean mask (fancy).
\* Anything else, a string or a list holding a string included, is no index.
Axis(sel, n) ==
    CASE sel.t = "int" ->
            IF InRange(sel.n, n)
            THEN [ok |-> TRUE, kind |-> "scalar", idx |-> <<Norm(sel.n, n)>>]
            ELSE IndexError
      [] sel.t = "slice" ->
            [ok |-> TRUE, kind |-> "basic", idx |-> SliceIndices(sel, n)]
      [] sel.t = "list" ->
            IF \A k \in 1..Len(sel.v) : sel.v[k].t = "int" /\ InRange(sel.v[k].n, n)
            THEN [ok |-> TRUE, kind |-> "fancy",
                  idx |-> [k \in 1..Len(sel.v) |-> Norm(sel.v[k].n, n)]]
            ELSE IndexError
      [] sel.t = "mask" ->
            IF Len(sel.v) = n
            THEN [ok |-> TRUE, kind |-> "fancy", idx |-> Nonzero(sel.v, 1)]
            ELSE IndexError
      [] OTHER -> IndexError

\* arr[rows] for a 2-dimensional arr.
NpGetRows(arr, rows) ==
    LET r == Axis(rows, arr.shape[1])
    IN  IF ~r.ok THEN r
        ELSE IF r.kind = "scalar"
        THEN [ok |-> TRUE, arr |-> Array1(arr.data[r.idx[1] + 1]), rows |-> r.idx]
        ELSE [ok |-> TRUE, arr |-> Array2(Take(arr.data, r.idx), arr.shape[2]),
              rows |-> r.idx]

\* arr[rows, cols] for a 2-dimensional arr.  Two fancy indices are broadcast
\* against each other and pair up elementwise; every other combination takes
\* the selected rows crossed with the selected columns.
NpGetRowsCols(arr, rows, cols) ==
    LET r == Axis(rows, arr.shape[1])
        c == Axis(cols, arr.shape[2])
        at(i, j) == arr.data[i + 1][j + 1]
    IN  IF ~r.ok THEN r
        ELSE IF ~c.ok THEN c
        ELSE IF r.kind = "scalar" /\ c.kind = "scalar"
        THEN [ok |-> TRUE, arr |-> Array0(at(r.idx[1], c.idx[1])), rows |-> r.idx]
        ELSE IF r.kind = "scalar"
        THEN [ok |-> TRUE, rows |-> r.idx,
              arr |-> Array1([k \in 1..Len(c.idx) |-> at(r.idx[1], c.idx[k])])]
        ELSE IF c.kind = "scalar"
        THEN [ok |-> TRUE, rows |-> r.idx,
              arr |-> Array1([k \in 1..Len(r.idx) |-> at(r.idx[k], c.idx[1])])]
        ELSE IF r.kind = "fancy" /\ c.kind = "fancy"
        THEN LET nr == Len(r.idx)
                 nc == Len(c.idx)
                 n  == IF nr = 1 THEN nc ELSE nr
             IN  IF nr = nc \/ nr = 1 \/ nc = 1
                 THEN [ok |-> TRUE, rows |-> r.idx,
                       arr |-> Array1([k \in 1..n |->
                                  at(r.idx[IF nr = 1 THEN 1 ELSE k],
                                     c.idx[IF nc = 1 THEN 1 ELSE k])])]
                 ELSE IndexError
        ELSE [ok |-> TRUE, rows |-> r.idx,
              arr |-> Array2([k \in 1..Len(r.idx) |->
                                [j \in 1..Len(c.idx) |-> at(r.idx[k], c.idx[j])]],
                             Len(c.idx))]

\* numpy.char.isalpha on a 1-dimensional character array.
char_isalpha(row) == BoolMask([k \in 1..Len(row) |-> isalpha(row[k])])

\* ndarray.tostring() of a 1-dimensional character array: its characters joined.
tostring(arr) == PyStr(arr.chars)

\* Whether two shapes broadcast against each other, and the shape they give.
Broadcastable(s1, s2) ==
    \A k \in 1..2 : s1[k] = s2[k] \/ s1[k] = 1 \/ s2[k] = 1
BroadcastDim(a, b) == IF a = 1 THEN b ELSE a

\* numpy.all(a == b) for two 2-dimensional arrays: the comparison broadcasts;
\* shapes that do not broadcast compare unequal as a whole.
np_all_equal(a, b) ==
    IF ~Broadcastable(a.shape, b.shape) THEN FALSE
    ELSE LET nr == BroadcastDim(a.shape[1], b.shape[1])
             nc == BroadcastDim(a.shape[2], b.shape[2])
             el(x, i, j) == x.data[IF x.shape[1] = 1 THEN 1 ELSE i]
                                  [IF x.shape[2] = 1 THEN 1 ELSE j]
         IN  \A i \in 1..nr : \A j \in 1..nc : el(a, i, j) = el(b, i, j)

(***************************************************************************)
(* msafile.splitLabel: a label "<name>/<start>-<end>" gives the name and   *)
(* the two residue numbers; a label without such a suffix gives itself and *)
(* the unknown range 0, 0.  It never fails.                                *)
(***************************************************************************)
Digits == {"0", "1", "2", "3", "4", "5", "6", "7", "8", "9"}
DigitVal(d) ==
    CASE d = "0" -> 0 [] d = "1" -> 1 [] d = "2" -> 2 [] d = "3" -> 3 [] d = "4" -> 4
      [] d = "5" -> 5 [] d = "6" -> 6 [] d = "7" -> 7 [] d = "8" -> 8 [] d = "9" -> 9

IsNumber(s) == Len(s) > 0 /\ \A k \in 1..Len(s) : s[k] \in Digits

RECURSIVE ToInt(_)
ToInt(s) ==
    IF s = <<>> THEN 0
    ELSE 10 * ToInt(SubSeq(s, 1, Len(s) - 1)) + DigitVal(s[Len(s)])

splitLabel(label) ==
    IF label.t # "str" THEN [name |-> label, start |-> 0, end |-> 0]
    ELSE LET s == label.s
             cuts == {p \in (1..Len(s)) \X (1..Len(s)) :
                        /\ p[1] < p[2]
                        /\ s[p[1]] = "/"
                        /\ s[p[2]] = "-"
                        /\ IsNumber(SubSeq(s, p[1] + 1, p[2] - 1))
                        /\ IsNumber(SubSeq(s, p[2] + 1, Len(s)))}
         IN  IF cuts = {} THEN [name |-> label, start |-> 0, end |-> 0]
             ELSE LET p == CHOOSE q \in cuts : TRUE
                  IN  [name  |-> PyStr(SubSeq(s, 1, p[1] - 1)),
                       start |-> ToInt(SubSeq(s, p[1] + 1, p[2] - 1)),
                       end   |-> ToInt(SubSeq(s, p[2] + 1, Len(s)))]

(***************************************************************************)
(* str(x): a string is itself, an integer its decimal digits, None "None". *)
(***************************************************************************)
DigitChar(d) ==
    CASE d = 0 -> "0" [] d = 1 -> "1" [] d = 2 -> "2" [] d = 3 -> "3" [] d = 4 -> "4"
      [] d = 5 -> "5" [] d = 6 -> "6" [] d = 7 -> "7" [] d = 8 -> "8" [] d = 9 -> "9"

RECURSIVE NatToStr(_)
NatToStr(n) ==
    IF n < 10 THEN <<DigitChar(n)>>
    ELSE NatToStr(n \div 10) \o <<DigitChar(n % 10)>>

str(x) ==
    CASE x.t = "str" -> x
      [] x.t = "int" -> PyStr(IF x.n < 0 THEN <<"-">> \o NatToStr(-x.n)
                                         ELSE NatToStr(x.n))
      [] x.t = "None" -> PyStr(<<"N", "o", "n", "e">>)

(***************************************************************************)
(* dict operations.  A dict is a function from Python values to values.    *)
(***************************************************************************)
EmptyDict == <<>>
DictPut(f, key, val) ==
    [x \in (DOMAIN f) \cup {key} |-> IF x = key THEN val ELSE f[x]]

\* Lists and slices cannot be hashed: using one as a key raises TypeError.
Hashable(x) == x.t \in {"int", "str", "None"}

\* MapLabels with the bug of keeping the first row of a name.
RECURSIVE MapLabels_FirstWins(_, _, _)
MapLabels_FirstWins(labels, k, mapping) ==
    IF k > Len(labels) THEN mapping
    ELSE MapLabels_FirstWins(labels, k + 1,
            IF splitLabel(labels[k]).name \in DOMAIN mapping THEN mapping
            ELSE DictPut(mapping, splitLabel(labels[k]).name, k - 1))

\* MapLabels with the bug of using the whole label as the key.
RECURSIVE MapLabels_FullLabel(_, _, _)
MapLabels_FullLabel(labels, k, mapping) ==
    IF k > Len(labels) THEN mapping
    ELSE MapLabels_FullLabel(labels, k + 1, DictPut(mapping, labels[k], k - 1))

\* The mapping from each label's name to its row, filled in row order, so that
\* a later row with the same name replaces the earlier entry.
RECURSIVE MapLabels(_, _, _)
MapLabels(labels, k, mapping) ==
    IF k > Len(labels) THEN mapping
    ELSE MapLabels(labels, k + 1,
                   DictPut(mapping, splitLabel(labels[k]).name, k - 1))

(***************************************************************************)
(* class MSA.                                                              *)
(***************************************************************************)
MSA(arr, labels, mapping, title) ==
    [t |-> "MSA", msa |-> arr, labels |-> labels, mapping |-> mapping,
     title |-> title]

Absent == [t |-> "absent"]

\* numpy.fromstring(seq, '|S1'): the characters of seq as a 1-dimensional array.
fromstring(seq) == Array1(seq.s)

\* MSA.__init__ for an iterable of (label, sequence) pairs with a title.
MSA_init_pairs(pairs, title) ==
    LET labels == [k \in 1..Len(pairs) |-> pairs[k][1]]
        rows   == [k \in 1..Len(pairs) |-> fromstring(pairs[k][2]).chars]
    IN  [kind |-> "MSA",
         val  |-> MSA(Array2(rows, Len(rows[1])), PyList(labels),
                      PyDict(MapLabels(labels, 1, EmptyDict)), title)]

\* MSA.__init__ for a numpy array with the keywords labels, mapping, title.
MSA_init_array(arr, labels, mapping, title) ==
    IF arr.ndim # 2 THEN Raise("ValueError")
    ELSE IF arr.dtype # "S1" THEN Raise("ValueError")
    ELSE LET numseq == arr.shape[1]
         IN  IF labels.t # "None" /\ Len(labels.v) > 0 /\ Len(labels.v) # numseq
             THEN Raise("ValueError")
             ELSE [kind |-> "MSA",
                   val  |-> MSA(arr,
                                IF labels.t = "None"
                                THEN PyList([k \in 1..numseq |-> PyNone])
                                ELSE labels,
                                IF mapping.t = "None" /\ labels.t # "None"
                                THEN PyDict(MapLabels(labels.v, 1, EmptyDict))
                                ELSE mapping,
                                IF title.t = "absent"
                                THEN PyStr(<<"U", "n", "k", "n", "o", "w", "n">>)
                                ELSE title)]

numSequences(self) == self.msa.shape[1]
numResidues(self) == self.msa.shape[2]

\* __getitem__, lines 172-192: the index expression split into a row selector
\* and a column selector.
Classify(index) ==
    CASE index.t \in {"int", "slice", "None"} ->
            [ok |-> TRUE, rows |-> index, cols |-> PyNone]
      [] index.t = "str" -> [ok |-> TRUE, rows |-> index, cols |-> PyNone]
      [] index.t = "list" -> [ok |-> TRUE, rows |-> index, cols |-> PyNone]
      [] index.t = "tuple" ->
            IF Len(index.v) = 1
            THEN [ok |-> TRUE, rows |-> index.v[1], cols |-> PyNone]
            ELSE IF Len(index.v) = 2
            THEN [ok |-> TRUE, rows |-> index.v[1], cols |-> index.v[2]]
            ELSE [ok |-> FALSE]

\* ResolveRows with the bug of never resolving a list.
ResolveRows_NoList(mapping, rows) ==
    IF Hashable(rows) /\ rows \in DOMAIN mapping.v
    THEN PyInt(mapping.v[rows])
    ELSE rows

\* ResolveRows resolving a list element by element, each key on its own.
ResolveRows_PerElement(mapping, rows) ==
    IF Hashable(rows)
    THEN IF rows \in DOMAIN mapping.v THEN PyInt(mapping.v[rows]) ELSE rows
    ELSE IF rows.t = "list"
         THEN PyList([k \in 1..Len(rows.v) |->
                        IF Hashable(rows.v[k]) /\ rows.v[k] \in DOMAIN mapping.v
                        THEN PyInt(mapping.v[rows.v[k]])
                        ELSE rows.v[k]])
         ELSE rows

\* __getitem__, lines 194-201: a row selector that is a key of the mapping
\* becomes its row; a list becomes the list of its rows when every element is
\* a key, and stays as it is otherwise.
ResolveRows(mapping, rows) ==
    IF Hashable(rows)
    THEN IF rows \in DOMAIN mapping.v THEN PyInt(mapping.v[rows]) ELSE rows
    ELSE IF rows.t = "list"
            /\ \A k \in 1..Len(rows.v) :
                  Hashable(rows.v[k]) /\ rows.v[k] \in DOMAIN mapping.v
         THEN PyList([k \in 1..Len(rows.v) |-> PyInt(mapping.v[rows.v[k]])])
         ELSE rows

\* ResolveCols with the bug of taking the mask from the first row.
ResolveCols_FirstRow(self, cols) ==
    IF Hashable(cols) /\ cols \in DOMAIN self.mapping.v
    THEN char_isalpha(self.msa.data[1])
    ELSE cols

\* __getitem__, lines 206-211: a column selector that is a key of the mapping
\* becomes the mask of the alphabetic characters of that row.
ResolveCols(self, cols) ==
    IF Hashable(cols) /\ cols \in DOMAIN self.mapping.v
    THEN char_isalpha(self.msa.data[self.mapping.v[cols] + 1])
    ELSE cols

\* SubsetLabels with the bug of taking as many labels from the top of the list
\* as a list selects rows.
SubsetLabels_Prefix(labels, rows) ==
    CASE rows.t = "slice" ->
            [ok |-> TRUE,
             val |-> PyList(Take(labels.v, SliceIndices(rows, Len(labels.v))))]
      [] rows.t = "list" ->
            IF Len(rows.v) <= Len(labels.v)
            THEN [ok |-> TRUE, val |-> PyList(SubSeq(labels.v, 1, Len(rows.v)))]
            ELSE [ok |-> FALSE]

\* __getitem__, lines 232-236: the labels of the selected rows.
SubsetLabels(labels, rows) ==
    CASE rows.t = "slice" ->
            [ok |-> TRUE,
             val |-> PyList(Take(labels.v, SliceIndices(rows, Len(labels.v))))]
      [] rows.t = "list" ->
            IF \A k \in 1..Len(rows.v) : InRange(rows.v[k].n, Len(labels.v))
            THEN [ok |-> TRUE,
                  val |-> PyList([k \in 1..Len(rows.v) |->
                             labels.v[Norm(rows.v[k].n, Len(labels.v)) + 1]])]
            ELSE [ok |-> FALSE]

\* __getitem__, lines 218-237: the value returned for the selected array.
Materialize(self, rows, cols, sel) ==
    CASE sel.arr.ndim = 0 -> [kind |-> "char", val |-> sel.arr.item]
      [] sel.arr.ndim = 1 ->
            IF cols.t = "None"
            THEN IF InRange(rows.n, Len(self.labels.v))
                 THEN LET lbl == splitLabel(
                                   self.labels.v[Norm(rows.n, Len(self.labels.v)) + 1])
                      IN  [kind |-> "tuple",
                           val  |-> <<lbl.name, tostring(sel.arr), lbl.start, lbl.end>>]
                 ELSE Raise("IndexError")
            ELSE [kind |-> "str", val |-> tostring(sel.arr)]
      [] sel.arr.ndim = 2 ->
            LET labels == SubsetLabels(self.labels, rows)
            IN  IF ~labels.ok THEN Raise("IndexError")
                ELSE LET new == MSA_init_array(sel.arr, labels.val, PyNone,
                                               PyStr(self.title.s \o <<"'">>))
                     IN  IF new.kind = "raise" THEN new
                         ELSE [kind |-> "MSA", val |-> new.val, rows |-> sel.rows,
                               rowonly |-> cols.t = "None"]

\* MSA.__getitem__.
MSA_getitem(self, index) ==
    LET cls == Classify(index)
    IN  IF ~cls.ok THEN Raise("IndexError")
        ELSE IF self.mapping.t = "None" THEN Raise("AttributeError")
        ELSE LET rows == ResolveRows(self.mapping, cls.rows)
             IN  IF cls.cols.t = "None"
                 THEN LET sel == NpGetRows(self.msa, rows)
                      IN  IF ~sel.ok THEN Raise(sel.exc)
                          ELSE Materialize(self, rows, cls.cols, sel)
                 ELSE LET cols == ResolveCols(self, cls.cols)
                          sel  == NpGetRowsCols(self.msa, rows, cols)
                      IN  IF ~sel.ok THEN Raise("IndexError")
                          ELSE Materialize(self, rows, cols, sel)

\* MSA.__iter__ is a generator function: calling it runs none of its body and
\* returns a generator.  The generator's frame refers to the instance's label
\* list and grid, which no method rebinds after __init__, and counts the
\* tuples produced; it does not read the title.
MSA_iter(self) ==
    [t |-> "generator", labels |-> self.labels, msa |-> self.msa, i |-> 0,
     done |-> FALSE]

\* next(generator): the body runs to its next yield.  It produces the tuple of
\* row i while the label list has a label i, and ends with StopIteration after
\* the last label; a finished generator raises StopIteration again.
generator_next(g) ==
    IF g.done \/ g.i >= Len(g.labels.v)
    THEN [gen |-> [g EXCEPT !.done = TRUE], ret |-> Raise("StopIteration")]
    ELSE IF g.i >= g.msa.shape[1]
    THEN [gen |-> [g EXCEPT !.done = TRUE], ret |-> Raise("IndexError")]
    ELSE LET lbl == splitLabel(g.labels.v[g.i + 1])
         IN  [gen |-> [g EXCEPT !.i = g.i + 1],
              ret |-> [kind |-> "tuple",
                       val  |-> <<lbl.name, tostring(Array1(g.msa.data[g.i + 1])),
                                  lbl.start, lbl.end>>]]

\* MSA.__contains__: any exception of the lookup gives False.
MSA_contains(self, key) ==
    IF self.mapping.t = "None" THEN FALSE
    ELSE IF ~Hashable(key) THEN FALSE
    ELSE key \in DOMAIN self.mapping.v

\* MSA.__eq__.
MSA_eq(self, other) ==
    IF other.t # "MSA" THEN FALSE
    ELSE np_all_equal(other.msa, self.msa)

\* MSA.setTitle: the title becomes str(title); nothing else changes.
MSA_setTitle(self, title) == [self EXCEPT !.title = str(title)]

(***************************************************************************)
(* The inputs the calls are made with.                                     *)
(***************************************************************************)
\* Sequence rows of a given width: without gaps, and with gaps at the odd
\* columns (all gaps at width 1).  The residues are in either case.
RowTemplate(n, j) ==
    CASE n = 1 -> IF j % 2 = 1 THEN "D" ELSE "c"
      [] n = 2 -> IF j % 2 = 1 THEN "-" ELSE "z"
RowPool(width) == {[j \in 1..width |-> RowTemplate(n, j)] : n \in 1..2}

\* Sequences of length lo..hi over the set S.
SeqsOf(S, lo, hi) == UNION {[1..n -> S] : n \in lo..hi}

Grids == SeqsOf(RowPool(MaxCols), 1, MaxRows)

NameP == <<"P">>
NameQ == <<"Q">>
NamePQ == <<"P", "Q">>
LabelP15 == <<"P", "/", "1", "-", "5">>
LabelPQ == <<"P", "Q", "/", "2", "-", "1", "3">>
\* Two labels share the name P; one has no residue range; PQ extends the name P.
LabelPool == {PyStr(LabelP15), PyStr(NameP), PyStr(LabelPQ)}
\* The labels given with a character array.
ArrayLabelPool == {PyStr(LabelP15), PyStr(LabelPQ)}

\* Values asked about with "in", and used as names in index expressions: a
\* name, a longer name, a name no label has, a full label, and values that
\* are no strings.
StrKeys == {PyStr(NameP), PyStr(NamePQ), PyStr(NameQ), PyStr(LabelP15)}
Keys == StrKeys \cup {PyInt(0), PyNone, PyList(<<PyStr(NameP)>>)}

IntSel(n) == {PyInt(i) : i \in -(n + 1)..n}
SliceAll == PySlice(PyNone, PyNone)
\* The slices a:b with 0 <= a <= b <= n, the empty slice 1:0, and the slice :.
SliceSel(n) ==
    {PySlice(PyInt(q[1]), PyInt(q[2])) :
        q \in {p \in (0..n) \X (0..n) : p[1] <= p[2]}}
    \cup {PySlice(PyInt(1), PyInt(0)), SliceAll}
ListElems == {PyInt(0), PyInt(MaxRows - 1), PyStr(NameP), PyStr(NamePQ)}
ListSel ==
    {PyList(l) : l \in SeqsOf(ListElems, 0, MaxListLen)}
    \cup {PyList(<<PyInt(MaxRows)>>)}

RowSel == IntSel(MaxRows) \cup SliceSel(MaxRows) \cup StrKeys \cup ListSel

\* The selectors combined into (rows, cols) pairs: every row selector with a
\* few column selectors, and a few row selectors with every column selector.
PairRowSel ==
    {PyInt(i) : i \in -1..MaxRows}
    \cup {SliceAll, PySlice(PyInt(0), PyInt(1))}
    \cup {PyStr(NameP), PyStr(NameQ)}
    \cup {PyList(<<PyInt(0)>>), PyList(<<PyInt(1), PyInt(0)>>),
          PyList(<<PyStr(NameP)>>)}
PairColSel ==
    {PyInt(i) : i \in -1..MaxCols}
    \cup SliceSel(MaxCols)
    \cup {PyStr(NameP), PyStr(NamePQ), PyStr(NameQ)}
    \cup {PyList(<<PyInt(0)>>), PyList(<<PyInt(1), PyInt(0)>>),
          PyList(<<PyInt(MaxCols)>>)}
FewRowSel == {PyInt(i) : i \in 0..(MaxRows - 1)} \cup {SliceAll}
FewColSel == {PyInt(0), SliceAll, PyList(<<PyInt(1), PyInt(0)>>), PyStr(NameP)}

IndexExprs ==
    RowSel
    \cup {PyTuple(<<r, c>>) : r \in FewRowSel, c \in PairColSel}
    \cup {PyTuple(<<r, c>>) : r \in PairRowSel, c \in FewColSel}
    \cup {PyTuple(<<r>>) : r \in PairRowSel}
    \cup {PyTuple(<<>>), PyTuple(<<PyInt(0), PyInt(0), PyInt(0)>>)}

TitleT == PyStr(<<"T">>)

\* The titles given to setTitle: a string and a value that is no string.
Titles == {PyStr(<<"X">>), PyInt(7)}

\* What a matrix is compared with: an unlabelled matrix over every grid, a
\* labelled matrix over every grid of one row, and values that are no matrices.
Others ==
    {MSA_init_array(Array2(g, Len(g[1])), PyNone, PyNone, Absent).val : g \in Grids}
    \cup {MSA_init_pairs(<<<<PyStr(NameQ), PyStr(g[1])>>>>, TitleT).val :
             g \in {h \in Grids : Len(h) = 1}}
    \cup {PyInt(0), PyStr(NameP), PyNone}

(***************************************************************************)
(* The calls.  The caller is single-threaded: it makes a call, receives    *)
(* the outcome in op, and is done with it before it makes the next call.   *)
(***************************************************************************)
Idle == [name |-> "none"]

Init ==
    /\ msa = PyNone
    /\ op = Idle
    /\ derived = FALSE
    /\ gen = PyNone

Call(name, self, arg, ret) ==
    [name |-> name, self |-> self, arg |-> arg, ret |-> ret]

\* MSA(msafile): the file gives (label, sequence) pairs in file order.
NewFromPairs ==
    /\ msa = PyNone
    /\ op = Idle
    /\ \E g \in Grids :
         \E labels \in [1..Len(g) -> LabelPool] :
            LET pairs == [k \in 1..Len(g) |-> <<labels[k], PyStr(g[k])>>]
                ret   == MSA_init_pairs(pairs, TitleT)
            IN  /\ msa' = ret.val
                /\ op' = Call("init", PyNone, PyList(pairs), ret)
    /\ UNCHANGED <<derived, gen>>

\* MSA(array, labels=...): a character array with or without a list of labels.
NewFromArray ==
    /\ msa = PyNone
    /\ op = Idle
    /\ \E arr \in {Array2(g, Len(g[1])) : g \in Grids}
                  \cup {Array1(<<"D">>),
                        [Array2(<<<<"D">>>>, 1) EXCEPT !.dtype = "i8"]} :
         \E labels \in {PyNone}
                       \cup {PyList(l) : l \in SeqsOf(ArrayLabelPool, 0, MaxRows + 1)} :
            LET ret == MSA_init_array(arr, labels, PyNone, Absent)
            IN  /\ msa' = IF ret.kind = "MSA" THEN ret.val ELSE msa
                /\ op' = Call("init", PyNone,
                               [t |-> "array", arr |-> arr, labels |-> labels], ret)
    /\ UNCHANGED <<derived, gen>>

\* msa[index].
GetItem ==
    /\ msa # PyNone
    /\ op = Idle
    /\ \E index \in IndexExprs :
         op' = Call("getitem", msa, index, MSA_getitem(msa, index))
    /\ UNCHANGED <<msa, derived, gen>>

\* iter(msa): the caller gets a new generator and lets go of the one it held,
\* wherever that one stood.
Iterate ==
    /\ msa # PyNone
    /\ op = Idle
    /\ gen' = MSA_iter(msa)
    /\ op' = Call("iter", msa, PyNone, [kind |-> "generator"])
    /\ UNCHANGED <<msa, derived>>

\* iter(msa[index]): a generator of the matrix a selection of rows just
\* returned from a constructed matrix.
IterateView ==
    /\ op.name = "getitem"
    /\ op.ret.kind = "MSA"
    /\ op.ret.rowonly
    /\ ~derived
    /\ gen' = MSA_iter(op.ret.val)
    /\ op' = Call("iter", op.ret.val, op.arg, [kind |-> "generator"])
    /\ UNCHANGED <<msa, derived>>

\* next(generator): one more tuple, or StopIteration.  The caller is free to
\* make any other call between two of these, or never to make the next one.
NextRow ==
    /\ gen # PyNone
    /\ op = Idle
    /\ LET step == generator_next(gen)
       IN  /\ gen' = step.gen
           /\ op' = Call("next", gen, PyNone, step.ret)
    /\ UNCHANGED <<msa, derived>>

\* msa.setTitle(title).
SetTitle ==
    /\ msa # PyNone
    /\ op = Idle
    /\ \E title \in Titles :
         /\ msa' = MSA_setTitle(msa, title)
         /\ op' = Call("setTitle", msa, title, [kind |-> "None"])
    /\ UNCHANGED <<derived, gen>>

\* key in msa.
Contains ==
    /\ msa # PyNone
    /\ op = Idle
    /\ \E key \in Keys :
         op' = Call("contains", msa, key,
                    [kind |-> "bool", val |-> MSA_contains(msa, key)])
    /\ UNCHANGED <<msa, derived, gen>>

\* msa == other.
Equals ==
    /\ msa # PyNone
    /\ op = Idle
    /\ \E other \in Others :
         op' = Call("eq", msa, other, [kind |-> "bool", val |-> MSA_eq(msa, other)])
    /\ UNCHANGED <<msa, derived, gen>>

\* msa[a:b] == msa[[key, ...]]: a slice of rows compared with a selection of
\* rows by a list of names.
SliceEqualsList ==
    /\ msa # PyNone
    /\ op = Idle
    /\ \E a \in 0..MaxRows, b \in 1..MaxRows :
         \E K \in SeqsOf({PyStr(NameP), PyStr(NamePQ)}, 1, MaxListLen) :
            LET left  == MSA_getitem(msa, PySlice(PyInt(a), PyInt(b)))
                right == MSA_getitem(msa, PyList(K))
                ret   == IF left.kind = "raise" THEN left
                         ELSE IF right.kind = "raise" THEN right
                         ELSE [kind |-> "bool", val |-> MSA_eq(left.val, right.val)]
            IN  op' = Call("slice_eq_list", msa,
                           [slice |-> PySlice(PyInt(a), PyInt(b)), list |-> PyList(K)],
                           ret)
    /\ UNCHANGED <<msa, derived, gen>>

\* The caller keeps the matrix an indexing returned and goes on with it alone:
\* it lets go of the matrix it held and of its generator.
Adopt ==
    /\ op.name = "getitem"
    /\ op.ret.kind = "MSA"
    /\ ~derived
    /\ msa' = op.ret.val
    /\ op' = Idle
    /\ derived' = TRUE
    /\ gen' = PyNone

\* The caller is done with the outcome of the last call.
Return ==
    /\ op # Idle
    /\ \/ msa # PyNone
       \/ op.ret.kind = "raise"
    /\ op' = Idle
    /\ UNCHANGED <<msa, derived, gen>>

Next ==
    \/ NewFromPairs
    \/ NewFromArray
    \/ GetItem
    \/ Iterate
    \/ IterateView
    \/ NextRow
    \/ SetTitle
    \/ Contains
    \/ Equals
    \/ SliceEqualsList
    \/ Adopt
    \/ Return

Spec == Init /\ [][Next]_vars

(***************************************************************************)
(* Notions the properties are stated with, defined from the matrix alone.  *)
(***************************************************************************)
\* The label with any /start-end suffix removed.
BaseName(label) ==
    LET s == label.s
        slashes == {k \in 1..Len(s) : s[k] = "/"}
    IN  IF slashes = {} THEN label
        ELSE PyStr(SubSeq(s, 1, (CHOOSE k \in slashes : \A j \in slashes : k <= j) - 1))

\* The rows of m whose label has the base name key.
RowsNamed(m, key) ==
    {r \in 0..(Len(m.labels.v) - 1) :
        m.labels.v[r + 1].t = "str" /\ BaseName(m.labels.v[r + 1]) = key}

HasIndex(m) == m.mapping.t = "dict"
IsKey(m, key) == HasIndex(m) /\ Hashable(key) /\ key \in DOMAIN m.mapping.v

\* A matrix with one label per row.
Labelled(m) ==
    /\ HasIndex(m)
    /\ Len(m.labels.v) = numSequences(m)
    /\ \A k \in 1..Len(m.labels.v) : m.labels.v[k].t = "str"

SetMax(S) == CHOOSE x \in S : \A y \in S : y <= x

\* C1: for a matrix with labels and a key k of its mapping, msa[k] is the tuple
\* (k, whole row, start, end) of the LAST row whose label has the base name k,
\* the same tuple as msa[i] for that row i, and its string has numResidues
\* characters.
C1_LabelAndPositionAgree ==
    (op.name = "getitem" /\ op.arg.t = "str" /\ IsKey(op.self, op.arg)) =>
        LET m   == op.self
            i   == SetMax(RowsNamed(m, op.arg))
            lbl == m.labels.v[i + 1]
            rng == splitLabel(lbl)
        IN  /\ RowsNamed(m, op.arg) # {}
            /\ op.ret.kind = "tuple"
            /\ op.ret.val = <<op.arg, PyStr(m.msa.data[i + 1]), rng.start, rng.end>>
            /\ Len(op.ret.val[2].s) = numResidues(m)
            /\ MSA_getitem(m, PyInt(i)).kind = "tuple"
            /\ op.ret.val = MSA_getitem(m, PyInt(i)).val

\* msa['P'] was evaluated on a matrix whose rows 0 and 1 both have the name P
\* and differ in their residue ranges.
C1_Witness ==
    /\ op.name = "getitem"
    /\ op.arg = PyStr(NameP)
    /\ op.ret.kind = "tuple"
    /\ numSequences(op.self) = 2
    /\ op.self.labels.v = <<PyStr(NameP), PyStr(LabelP15)>>
    /\ op.ret.val[3] = 1

\* C2: for a matrix with labels and a key L, msa[:, L] is a matrix with the
\* same number of rows and numResidues - g columns, g the number of
\* non-alphabetic characters of row mapping[L]; each row is the parent's row
\* restricted, in order, to the columns where that row is alphabetic, and the
\* labels are the parent's.
C2_ColumnPruning ==
    (/\ op.name = "getitem"
     /\ op.arg.t = "tuple"
     /\ Len(op.arg.v) = 2
     /\ op.arg.v[1] = PySlice(PyNone, PyNone)
     /\ IsKey(op.self, op.arg.v[2])) =>
        LET m      == op.self
            keyrow == m.msa.data[m.mapping.v[op.arg.v[2]] + 1]
            keep   == {j \in 1..numResidues(m) : isalpha(keyrow[j])}
            gaps   == {j \in 1..numResidues(m) : ~isalpha(keyrow[j])}
            rank(j) == Cardinality({x \in keep : x <= j})
        IN  /\ op.ret.kind = "MSA"
            /\ numSequences(op.ret.val) = numSequences(m)
            /\ numResidues(op.ret.val) = numResidues(m) - Cardinality(gaps)
            /\ \A r \in 1..numSequences(m) :
                  /\ Len(op.ret.val.msa.data[r]) = Cardinality(keep)
                  /\ \A j \in keep :
                        op.ret.val.msa.data[r][rank(j)] = m.msa.data[r][j]
            /\ op.ret.val.labels = m.labels

\* msa[:, 'PQ'] was evaluated where PQ names the second row, that row has a
\* gap and the other row has none.
C2_Witness ==
    /\ op.name = "getitem"
    /\ op.arg = PyTuple(<<SliceAll, PyStr(NamePQ)>>)
    /\ op.ret.kind = "MSA"
    /\ numSequences(op.self) = 2
    /\ op.self.msa.data = << <<"D", "c">>, <<"-", "z">> >>
    /\ op.self.mapping.v[PyStr(NamePQ)] = 1
    /\ op.ret.val.msa.data = << <<"c">>, <<"z">> >>

\* C3: when 0 <= a < b <= numSequences and the list K of keys names exactly the
\* rows a..b-1 in order, msa[a:b] == msa[K] is True.
C3_SliceEqualsKeyList ==
    (/\ op.name = "slice_eq_list"
     /\ HasIndex(op.self)
     /\ 0 <= op.arg.slice.start.n
     /\ op.arg.slice.start.n < op.arg.slice.stop.n
     /\ op.arg.slice.stop.n <= numSequences(op.self)
     /\ Len(op.arg.list.v) = op.arg.slice.stop.n - op.arg.slice.start.n
     /\ \A n \in 1..Len(op.arg.list.v) :
           /\ IsKey(op.self, op.arg.list.v[n])
           /\ op.self.mapping.v[op.arg.list.v[n]] = op.arg.slice.start.n + n - 1) =>
        op.ret.kind = "bool" /\ op.ret.val = TRUE

\* msa[0:2] == msa[['P', 'PQ']] was evaluated on a matrix of two different
\* rows named P and PQ.
C3_Witness ==
    /\ op.name = "slice_eq_list"
    /\ op.arg.slice = PySlice(PyInt(0), PyInt(2))
    /\ op.arg.list = PyList(<<PyStr(NameP), PyStr(NamePQ)>>)
    /\ HasIndex(op.self)
    /\ numSequences(op.self) = 2
    /\ op.self.msa.data[1] # op.self.msa.data[2]
    /\ IsKey(op.self, PyStr(NameP))
    /\ op.self.mapping.v[PyStr(NameP)] = 0
    /\ IsKey(op.self, PyStr(NamePQ))
    /\ op.ret.kind = "bool"
    /\ op.ret.val = TRUE

\* C6: key in msa never raises, and is True exactly when key equals the base
\* name of the label of some row; a longer or shorter name, a full label with
\* its range, and a value that is no string are not members, and a matrix
\* without labels has no members.
C6_MembershipIsBaseName ==
    op.name = "contains" =>
        /\ op.ret.kind = "bool"
        /\ op.ret.val = (op.arg.t = "str" /\ RowsNamed(op.self, op.arg) # {})

\* 'P/1-5' in msa was evaluated on a matrix that has the label P/1-5, and was
\* False.
C6_Witness ==
    /\ op.name = "contains"
    /\ op.arg = PyStr(LabelP15)
    /\ \E k \in 1..Len(op.self.labels.v) : op.self.labels.v[k] = PyStr(LabelP15)
    /\ op.ret.kind = "bool"
    /\ op.ret.val = FALSE

\* C7: for a matrix P with one label per row and a selection of rows only that
\* returns a matrix V of the parent rows p_0..p_(n-1), the generator of V
\* produces n tuples and then stops, and the m-th tuple is the tuple P[p_m],
\* whatever the caller does between two tuples.  V is any matrix a row
\* selector returns from the held matrix that has the labels and the grid the
\* generator iterates.
C7_ViewIterationRoundTrip ==
    (op.name = "next" /\ ~op.self.done /\ Labelled(msa)) =>
        \A index \in RowSel :
           LET view == MSA_getitem(msa, index)
               m    == op.self.i
           IN  (/\ view.kind = "MSA"
                /\ view.val.labels = op.self.labels
                /\ view.val.msa = op.self.msa) =>
                  IF m < Len(view.rows)
                  THEN LET direct == MSA_getitem(msa, PyInt(view.rows[m + 1]))
                       IN  /\ direct.kind = "tuple"
                           /\ op.ret.kind = "tuple"
                           /\ op.ret.val = direct.val
                  ELSE /\ m = Len(view.rows)
                       /\ op.ret.kind = "raise"
                       /\ op.ret.exc = "StopIteration"

\* The second tuple of msa[[1, 0]] was produced, the two rows of msa having
\* the same base name and different characters, and the title of msa was
\* changed after the first tuple.
C7_Witness ==
    /\ op.name = "next"
    /\ Labelled(msa)
    /\ msa.labels.v = <<PyStr(LabelP15), PyStr(NameP)>>
    /\ msa.msa.data[1] # msa.msa.data[2]
    /\ op.self.labels.v = <<PyStr(NameP), PyStr(LabelP15)>>
    /\ op.self.msa.data = <<msa.msa.data[2], msa.msa.data[1]>>
    /\ op.self.i = 1
    /\ op.ret.kind = "tuple"
    /\ op.ret.val[2] = PyStr(msa.msa.data[1])
    /\ msa.title = PyStr(<<"7">>)

\* C4: on every constructed matrix, with labels or without, msa[i, j] is the
\* character of row i at column j and msa[i, j:k] is the string of the
\* characters j..k-1 of row i, for 0 <= i < numSequences and
\* 0 <= j <= k <= numResidues.
C4_CharacterAndSubstring ==
    (/\ op.name = "getitem"
     /\ op.arg.t = "tuple"
     /\ Len(op.arg.v) = 2
     /\ op.arg.v[1].t = "int"
     /\ 0 <= op.arg.v[1].n
     /\ op.arg.v[1].n < numSequences(op.self)) =>
        LET row == op.self.msa.data[op.arg.v[1].n + 1]
            c   == op.arg.v[2]
        IN  /\ (c.t = "int" /\ 0 <= c.n /\ c.n < numResidues(op.self)) =>
                  op.ret.kind = "char" /\ op.ret.val = row[c.n + 1]
            /\ (/\ c.t = "slice" /\ c.start.t = "int" /\ c.stop.t = "int"
                /\ 0 <= c.start.n /\ c.start.n <= c.stop.n
                /\ c.stop.n <= numResidues(op.self)) =>
                  /\ op.ret.kind = "str"
                  /\ op.ret.val = PyStr(SubSeq(row, c.start.n + 1, c.stop.n))
                  /\ Len(op.ret.val.s) = c.stop.n - c.start.n

\* C5: msa == other is True exactly when other is a matrix whose grid has the
\* same number of rows, the same number of columns and the same characters.
C5_EqualityIsGridIdentity ==
    op.name = "eq" =>
        /\ op.ret.kind = "bool"
        /\ op.ret.val = (/\ op.arg.t = "MSA"
                         /\ op.arg.msa.shape = op.self.msa.shape
                         /\ op.arg.msa.data = op.self.msa.data)

\* An index expression the matrix cannot serve: a tuple of a length other than
\* 1 and 2, a row or column position out of range, a name that is no key.
Unservable(m, index) ==
    LET badRow(r) == \/ r.t = "int" /\ ~InRange(r.n, numSequences(m))
                     \/ r.t = "str" /\ ~IsKey(m, r)
        badCol(c) == \/ c.t = "int" /\ ~InRange(c.n, numResidues(m))
                     \/ c.t = "str" /\ ~IsKey(m, c)
    IN  \/ index.t = "tuple" /\ Len(index.v) \notin {1, 2}
        \/ index.t \in {"int", "str"} /\ badRow(index)
        \/ index.t = "tuple" /\ Len(index.v) = 2
             /\ (badRow(index.v[1]) \/ badCol(index.v[2]))

\* C8: an index expression the matrix cannot serve fails with IndexError and
\* leaves the matrix as it was.
C8_FailuresAreIndexErrors ==
    (op.name = "getitem" /\ Unservable(op.self, op.arg)) =>
        /\ op.ret.kind = "raise"
        /\ op.ret.exc = "IndexError"
        /\ msa = op.self

\* The rows of a matrix and its labels and mapping agree.
WellFormed(m) ==
    /\ Len(m.labels.v) = numSequences(m)
    /\ HasIndex(m) =>
          \A key \in DOMAIN m.mapping.v :
             0 <= m.mapping.v[key] /\ m.mapping.v[key] < numSequences(m)

\* C9: a list of labels given with an array is rejected with ValueError when
\* its length is not the number of rows, the empty list included; and every
\* matrix constructed or returned by an indexing has one label per row and a
\* mapping into its own rows.
C9_LabelsAndMappingWellFormed ==
    /\ (/\ op.name = "init"
        /\ op.arg.t = "array"
        /\ op.arg.arr.ndim = 2
        /\ op.arg.labels.t = "list"
        /\ Len(op.arg.labels.v) # op.arg.arr.shape[1]) =>
           (op.ret.kind = "raise" /\ op.ret.exc = "ValueError")
    /\ msa # PyNone => WellFormed(msa)
    /\ (op.name = "getitem" /\ op.ret.kind = "MSA") => WellFormed(op.ret.val)

MixedList(m, index) ==
    /\ index.t = "list"
    /\ \E k \in 1..Len(index.v) : IsKey(m, index.v[k])
    /\ \E k \in 1..Len(index.v) : ~IsKey(m, index.v[k])

\* C10 as claimed: a list that mixes keys and row positions selects the rows
\* the keys name and the rows at the positions, in list order.
C10_MixedListSelectsRows ==
    (/\ op.name = "getitem"
     /\ MixedList(op.self, op.arg)
     /\ \A k \in 1..Len(op.arg.v) :
           \/ IsKey(op.self, op.arg.v[k])
           \/ /\ op.arg.v[k].t = "int"
              /\ 0 <= op.arg.v[k].n
              /\ op.arg.v[k].n < numSequences(op.self)) =>
        LET pos == [k \in 1..Len(op.arg.v) |->
                      IF IsKey(op.self, op.arg.v[k])
                      THEN op.self.mapping.v[op.arg.v[k]]
                      ELSE op.arg.v[k].n]
        IN  /\ op.ret.kind = "MSA"
            /\ op.ret.val.msa.data = Take(op.self.msa.data, pos)

\* C10 as the code has it: on a matrix with a mapping, a non-empty list is
\* resolved as a whole.  When every element is a key the rows the keys name
\* are returned in list order; when only some elements are keys nothing is
\* replaced and the selection fails with IndexError; and on a matrix with one
\* label per row a list of row positions in range selects those rows.
C10_ListResolvedAsAWhole ==
    (/\ op.name = "getitem"
     /\ op.arg.t = "list"
     /\ Len(op.arg.v) > 0
     /\ HasIndex(op.self)) =>
        LET m    == op.self
            keys == {k \in 1..Len(op.arg.v) : IsKey(m, op.arg.v[k])}
            all  == 1..Len(op.arg.v)
        IN  /\ keys = all =>
                  LET pos == [k \in all |-> m.mapping.v[op.arg.v[k]]]
                  IN  /\ op.ret.kind = "MSA"
                      /\ op.ret.rows = pos
                      /\ op.ret.val.msa.data = Take(m.msa.data, pos)
                      /\ op.ret.val.labels.v = Take(m.labels.v, pos)
            /\ (keys # all /\ keys # {}) =>
                  (op.ret.kind = "raise" /\ op.ret.exc = "IndexError")
            /\ (/\ keys = {}
                /\ Labelled(m)
                /\ \A k \in all : /\ op.arg.v[k].t = "int"
                                  /\ 0 <= op.arg.v[k].n
                                  /\ op.arg.v[k].n < numSequences(m)) =>
                  LET pos == [k \in all |-> op.arg.v[k].n]
                  IN  /\ op.ret.kind = "MSA"
                      /\ op.ret.val.msa.data = Take(m.msa.data, pos)

\* msa[['P', 1]] was evaluated on a matrix of two rows where P is a key, and
\* raised IndexError.
C10_Witness ==
    /\ op.name = "getitem"
    /\ op.arg = PyList(<<PyStr(NameP), PyInt(1)>>)
    /\ numSequences(op.self) = 2
    /\ IsKey(op.self, PyStr(NameP))
    /\ op.ret.kind = "raise"
    /\ op.ret.exc = "IndexError"

====
